---- MODULE Spec2Model ----
(***************************************************************************)
(* Model of the MCP Backlog server (src/src/index.ts): the four request    *)
(* handlers, the start-up routine main() and the BacklogClient wrapper.    *)
(*                                                                         *)
(* JavaScript values are records tagged by their type.  Numbers carry      *)
(* twice their value (x2), so that halves such as 0.5 are representable.   *)
(* Strings are TLA+ strings; a template literal is the sequence of its     *)
(* fragments, so that "the text contains s" is "some fragment equals s".   *)
(* The Japanese message literals of the source are rendered in ASCII.      *)
(***************************************************************************)
EXTENDS Integers, Sequences, FiniteSets, TLC

\* ------------------------------------------------------------------------
\* Bounds of the model
\* ------------------------------------------------------------------------
OverCount == 500        \* an out-of-range count a caller may pass
MaxProjects == 2        \* longest array the upstream returns
MaxId == 2              \* project ids are 1..MaxId

\* ------------------------------------------------------------------------
\* Program constants
\* ------------------------------------------------------------------------
MaxCount == 100
DefaultCount == 20

\* ------------------------------------------------------------------------
\* JavaScript values
\* ------------------------------------------------------------------------
Undefined == [t |-> "undefined"]
Null == [t |-> "null"]
Bool(b) == [t |-> "boolean", b |-> b]
Num(x2) == [t |-> "number", nan |-> FALSE, x2 |-> x2]
NaN == [t |-> "number", nan |-> TRUE, x2 |-> 0]
Str(s) == [t |-> "string", s |-> s]
Arr(items) == [t |-> "array", items |-> items]
Obj(keys, vals) == [t |-> "object", keys |-> keys, vals |-> vals]

\* v.k for an object v that is neither null nor undefined
Get(v, k) ==
  IF v.t = "object" /\ \E i \in 1..Len(v.keys) : v.keys[i] = k
  THEN v.vals[CHOOSE i \in 1..Len(v.keys) : v.keys[i] = k]
  ELSE Undefined

\* v?.k
OptGet(v, k) == IF v.t \in {"undefined", "null"} THEN Undefined ELSE Get(v, k)

\* v?.[i] (i counted from 0)
OptIndex(v, i) ==
  IF v.t = "array" /\ i < Len(v.items) THEN v.items[i + 1] ELSE Undefined

\* ToBoolean: the truthiness of a value
ToBoolean(v) ==
  CASE v.t = "undefined" -> FALSE
    [] v.t = "null" -> FALSE
    [] v.t = "boolean" -> v.b
    [] v.t = "number" -> ~v.nan /\ v.x2 # 0
    [] v.t = "string" -> v.s # ""
    [] OTHER -> TRUE

Digit(d) ==
  CASE d = 0 -> "0" [] d = 1 -> "1" [] d = 2 -> "2" [] d = 3 -> "3"
    [] d = 4 -> "4" [] d = 5 -> "5" [] d = 6 -> "6" [] d = 7 -> "7"
    [] d = 8 -> "8" [] d = 9 -> "9"

RECURSIVE NatToString(_)
NatToString(n) ==
  IF n < 10 THEN Digit(n) ELSE NatToString(n \div 10) \o Digit(n % 10)

\* Number.prototype.toString on a number value
NumberToString(v) ==
  IF v.nan THEN "NaN"
  ELSE LET a == IF v.x2 < 0 THEN -v.x2 ELSE v.x2
       IN (IF v.x2 < 0 THEN "-" ELSE "") \o NatToString(a \div 2)
            \o (IF a % 2 = 1 THEN ".5" ELSE "")

\* the decimal literals StringToNumber recognises
ParseRange == (-2 * (OverCount + 1)) .. (2 * (OverCount + 1))

\* Number(s) for a string s: the empty string is 0, a decimal literal is
\* its value, anything else is NaN
DecimalLiteral == [x2 \in ParseRange |-> NumberToString(Num(x2))]
DecimalLiterals == {DecimalLiteral[x2] : x2 \in ParseRange}
StringToNumber(s) ==
  IF s = "" THEN Num(0)
  ELSE IF s \in DecimalLiterals
       THEN Num(CHOOSE x2 \in ParseRange : DecimalLiteral[x2] = s)
       ELSE NaN

\* Number(v)
ToNumber(v) ==
  CASE v.t = "undefined" -> NaN
    [] v.t = "null" -> Num(0)
    [] v.t = "boolean" -> IF v.b THEN Num(2) ELSE Num(0)
    [] v.t = "number" -> v
    [] v.t = "string" -> StringToNumber(v.s)
    [] OTHER -> NaN

\* a > n and a <= n for a number value a and an integer n (false on NaN)
NumGt(a, n) == ~a.nan /\ a.x2 > 2 * n
NumLe(a, n) == ~a.nan /\ a.x2 <= 2 * n

\* ------------------------------------------------------------------------
\* JSON texts: a text is the sequence of its tokens
\* ------------------------------------------------------------------------
ProjectNames == {"Alpha", "Beta"}

\* the string contents the JSON lexer recognises
Lexicon ==
  {"project", "updated", "id", "name", "errors", "message", "code",
   "moreInfo", "", "Authentication failure", "2024-01-01"} \cup ProjectNames

\* the number literals the JSON lexer recognises
ErrorCodes == {5, 11}
LexNums == (0 .. MaxId) \cup ErrorCodes

Quote(s) == "\"" \o s \o "\""

StringTokens == {Quote(s) : s \in Lexicon}
NumberTokens == {NatToString(n) : n \in LexNums}
TokenString == [tk \in StringTokens |-> CHOOSE s \in Lexicon : Quote(s) = tk]
TokenValue == [tk \in NumberTokens |-> CHOOSE n \in LexNums : NatToString(n) = tk]
IsStringToken(tk) == tk \in StringTokens
Unquote(tk) == TokenString[tk]
IsNumberToken(tk) == tk \in NumberTokens
TokenNumber(tk) == TokenValue[tk]
IsSpace(tk) == tk \in {"\n", " ", "  "}

RECURSIVE Indent(_)
Indent(d) == IF d = 0 THEN <<>> ELSE <<"  ">> \o Indent(d - 1)

\* JSON.stringify(v, null, 2) of a value at nesting depth d
RECURSIVE Stringify(_, _)
RECURSIVE StringifyItems(_, _, _)
RECURSIVE StringifyMembers(_, _, _, _)
StringifyItems(items, i, d) ==
  Indent(d) \o Stringify(items[i], d)
    \o (IF i = Len(items) THEN <<"\n">>
        ELSE <<",", "\n">> \o StringifyItems(items, i + 1, d))
StringifyMembers(keys, vals, i, d) ==
  Indent(d) \o <<Quote(keys[i]), ":", " ">> \o Stringify(vals[i], d)
    \o (IF i = Len(keys) THEN <<"\n">>
        ELSE <<",", "\n">> \o StringifyMembers(keys, vals, i + 1, d))
Stringify(v, d) ==
  CASE v.t = "null" -> <<"null">>
    [] v.t = "boolean" -> IF v.b THEN <<"true">> ELSE <<"false">>
    [] v.t = "number" -> IF v.nan THEN <<"null">> ELSE <<NumberToString(v)>>
    [] v.t = "string" -> <<Quote(v.s)>>
    [] v.t = "array" ->
         IF v.items = <<>> THEN <<"[", "]">>
         ELSE <<"[", "\n">> \o StringifyItems(v.items, 1, d + 1)
                \o Indent(d) \o <<"]">>
    [] v.t = "object" ->
         IF v.keys = <<>> THEN <<"{", "}">>
         ELSE <<"{", "\n">> \o StringifyMembers(v.keys, v.vals, 1, d + 1)
                \o Indent(d) \o <<"}">>

ParseFail == [ok |-> FALSE, v |-> Null, i |-> 0]
ParseOk(v, i) == [ok |-> TRUE, v |-> v, i |-> i]

\* recursive descent over the tokens ts from position i
RECURSIVE ParseValue(_, _)
RECURSIVE ParseItems(_, _, _)
RECURSIVE ParseMembers(_, _, _, _)
ParseItems(ts, i, acc) ==
  LET r == ParseValue(ts, i) IN
  IF ~r.ok \/ r.i > Len(ts) THEN ParseFail
  ELSE IF ts[r.i] = "," THEN ParseItems(ts, r.i + 1, Append(acc, r.v))
  ELSE IF ts[r.i] = "]" THEN ParseOk(Arr(Append(acc, r.v)), r.i + 1)
  ELSE ParseFail
ParseMembers(ts, i, keys, vals) ==
  IF i + 1 > Len(ts) THEN ParseFail
  ELSE IF ~IsStringToken(ts[i]) \/ ts[i + 1] # ":" THEN ParseFail
  ELSE LET r == ParseValue(ts, i + 2)
           k == Unquote(ts[i])
       IN IF ~r.ok \/ r.i > Len(ts) THEN ParseFail
          ELSE IF ts[r.i] = ","
               THEN ParseMembers(ts, r.i + 1, Append(keys, k), Append(vals, r.v))
          ELSE IF ts[r.i] = "}"
               THEN ParseOk(Obj(Append(keys, k), Append(vals, r.v)), r.i + 1)
          ELSE ParseFail
ParseValue(ts, i) ==
  IF i > Len(ts) THEN ParseFail
  ELSE LET tk == ts[i] IN
    CASE tk = "null" -> ParseOk(Null, i + 1)
      [] tk = "true" -> ParseOk(Bool(TRUE), i + 1)
      [] tk = "false" -> ParseOk(Bool(FALSE), i + 1)
      [] tk = "[" ->
           IF i + 1 <= Len(ts) /\ ts[i + 1] = "]" THEN ParseOk(Arr(<<>>), i + 2)
           ELSE ParseItems(ts, i + 1, <<>>)
      [] tk = "{" ->
           IF i + 1 <= Len(ts) /\ ts[i + 1] = "}"
           THEN ParseOk(Obj(<<>>, <<>>), i + 2)
           ELSE ParseMembers(ts, i + 1, <<>>, <<>>)
      [] OTHER ->
           IF IsStringToken(tk) THEN ParseOk(Str(Unquote(tk)), i + 1)
           ELSE IF IsNumberToken(tk) THEN ParseOk(Num(2 * TokenNumber(tk)), i + 1)
           ELSE ParseFail

\* JSON.parse / Response.json(): the value of a text, or a SyntaxError
JSONParse(text) ==
  LET ts == SelectSeq(text, LAMBDA tk : ~IsSpace(tk))
      r == ParseValue(ts, 1)
  IN IF r.ok /\ r.i = Len(ts) + 1 THEN [ok |-> TRUE, v |-> r.v]
     ELSE [ok |-> FALSE, v |-> Null]

\* ------------------------------------------------------------------------
\* Outcomes of a call: a returned value or a thrown error
\* ------------------------------------------------------------------------
NoError == [name |-> "none", message |-> <<>>]
Error(name, message) == [name |-> name, message |-> message]
Return(v) == [ok |-> TRUE, value |-> v, error |-> NoError]
Throw(e) == [ok |-> FALSE, value |-> Undefined, error |-> e]

\* `${v}` inside a template literal
TemplateString(v) ==
  CASE v.t = "undefined" -> "undefined"
    [] v.t = "null" -> "null"
    [] v.t = "boolean" -> IF v.b THEN "true" ELSE "false"
    [] v.t = "number" -> NumberToString(v)
    [] v.t = "string" -> v.s
    [] OTHER -> "[object Object]"

MsgSampleEnv == <<"environment variable SAMPLE_ENV is not set">>
MsgUnknownResource(uri) == <<"unknown resource: ", uri>>
MsgCredentials ==
  <<"BACKLOG_API_KEY and BACKLOG_SPACE_URL environment variables are required">>
MsgUnknownTool == <<"unknown tool">>
MsgStartup ==
  <<"BACKLOG_API_KEY and BACKLOG_SPACE_URL environment variables are required. Cannot start the server.">>
GreetingText(sampleEnv) ==
  <<"Hello! Welcome to the simple MCP server.\nenvironment variable SAMPLE_ENV: ",
    sampleEnv>>

\* ------------------------------------------------------------------------
\* Dispatcher
\* ------------------------------------------------------------------------
GreetingUri == "simple://greeting"
RecentPath == "/users/myself/recentlyViewedProjects"

listTools ==
  [tools |-> <<[name |-> "list_recent_projects",
                properties |-> <<"count", "order">>,
                required |-> <<>>]>>]

listResources ==
  [resources |-> <<[uri |-> GreetingUri, mimeType |-> "text/plain",
                    name |-> "Greeting"]>>]

\* readResource without the check of SAMPLE_ENV
readResource_NoEnvCheck(uri, e) ==
  IF uri = GreetingUri
  THEN Return([contents |-> <<[uri |-> uri, mimeType |-> "text/plain",
                               text |-> GreetingText(TemplateString(e["SAMPLE_ENV"]))]>>])
  ELSE Throw(Error("Error", MsgUnknownResource(uri)))

readResource(uri, e) ==
  IF uri = GreetingUri
  THEN LET sampleEnv == e["SAMPLE_ENV"] IN
       IF ~ToBoolean(sampleEnv) THEN Throw(Error("Error", MsgSampleEnv))
       ELSE Return([contents |-> <<[uri |-> uri, mimeType |-> "text/plain",
                                    text |-> GreetingText(sampleEnv.s)]>>])
  ELSE Throw(Error("Error", MsgUnknownResource(uri)))

\* formatToolResponse listing an array last element first
formatToolResponse_Reversed(title, data) ==
  LET shown == IF data.t = "array"
               THEN Arr([i \in 1 .. Len(data.items) |->
                           data.items[Len(data.items) + 1 - i]])
               ELSE data
  IN [content |-> <<[type |-> "text",
                     text |-> <<"# ", title, "\n\n">> \o Stringify(shown, 0)]>>]

formatToolResponse(title, data) ==
  [content |-> <<[type |-> "text",
                  text |-> <<"# ", title, "\n\n">> \o Stringify(data, 0)]>>]

\* ------------------------------------------------------------------------
\* BacklogClient
\* ------------------------------------------------------------------------
ValidUrls == {"https://example.backlog.com"}

\* new URL(...) with the apiKey and the query parameters appended
getUrl(config, path, queryParams) ==
  IF config.spaceUrl \notin ValidUrls
  THEN Throw(Error("TypeError", <<"Invalid URL">>))
  ELSE Return([base |-> config.spaceUrl,
               path |-> "/api/v2" \o path,
               query |-> <<<<"apiKey", config.apiKey>>>> \o queryParams])

\* request(), up to the call of fetch: the HTTP request it issues
requestIssue(config, path, queryParams) ==
  LET url == getUrl(config, path, queryParams) IN
  IF ~url.ok THEN [issued |-> FALSE, res |-> url, http |-> <<>>]
  ELSE [issued |-> TRUE, res |-> url,
        http |-> <<[method |-> "GET", url |-> url.value,
                    headers |-> <<<<"Content-Type", "application/json">>>>]>>]

ResponseOk(status) == status >= 200 /\ status <= 299

ApiErrorMessage(data) ==
  LET first == OptIndex(Get(data, "errors"), 0)
      message == OptGet(first, "message")
      code == OptGet(first, "code")
  IN <<"Backlog API Error: ",
       IF ToBoolean(message) THEN TemplateString(message) ELSE "Unknown error",
       " (Code: ", TemplateString(code), ")">>

\* request() with a catch block that raises an error of its own
requestSettle_Wrap(path, outcome) ==
  LET parsed == JSONParse(outcome.body)
      failed == outcome.kind = "network" \/ ~parsed.ok
                  \/ ~ResponseOk(outcome.status)
      wrapped == Error("Error", <<"Backlog API request failed">>)
  IN IF ~failed
     THEN [logs |-> <<>>, res |-> Return(parsed.v)]
     ELSE [logs |-> <<[prefix |-> "Error in Backlog API request to " \o path \o ":",
                       error |-> wrapped]>>,
           res |-> Throw(wrapped)]

\* request(), from the settling of fetch on: what it logs and how it ends
requestSettle(path, outcome) ==
  LET parsed == JSONParse(outcome.body)
      thrown ==
        IF outcome.kind = "network" THEN Error("TypeError", <<"fetch failed">>)
        ELSE IF ~parsed.ok THEN Error("SyntaxError", <<"Unexpected token in JSON">>)
        ELSE IF ~ResponseOk(outcome.status)
             THEN IF parsed.v.t = "null"
                  THEN Error("TypeError",
                             <<"Cannot read properties of null (reading 'errors')">>)
                  ELSE Error("Error", ApiErrorMessage(parsed.v))
        ELSE NoError
  IN IF thrown = NoError
     THEN [logs |-> <<>>, res |-> Return(parsed.v)]
     ELSE [logs |-> <<[prefix |-> "Error in Backlog API request to " \o path \o ":",
                       error |-> thrown]>>,
           res |-> Throw(thrown)]

getRecentlyViewedProjects(config, params) ==
  LET q1 == IF ToBoolean(params.order)
            THEN <<<<"order", params.order.s>>>> ELSE <<>>
      q2 == IF params.offset # Undefined
            THEN <<<<"offset", NumberToString(params.offset)>>>> ELSE <<>>
      q3 == IF params.count # Undefined
            THEN <<<<"count", NumberToString(params.count)>>>> ELSE <<>>
  IN requestIssue(config, RecentPath, q1 \o q2 \o q3)

\* ------------------------------------------------------------------------
\* Tool execution
\* ------------------------------------------------------------------------
ResolveCount(args) ==
  LET c == OptGet(args, "count") IN
  IF ToBoolean(c) /\ NumGt(ToNumber(c), 0) /\ NumLe(ToNumber(c), MaxCount)
  THEN ToNumber(c)
  ELSE Num(2 * DefaultCount)

\* the order compared without regard to case
ResolveOrder_CaseInsensitive(args) ==
  IF OptGet(args, "order") \in {Str("asc"), Str("ASC")}
  THEN Str("asc") ELSE Str("desc")

ResolveOrder(args) ==
  IF OptGet(args, "order") = Str("asc") THEN Str("asc") ELSE Str("desc")

\* executeTools without the check of the credentials
executeTools_NoCredentialCheck(toolName, args, e) ==
  IF toolName = "list_recent_projects"
  THEN getRecentlyViewedProjects(
         [apiKey |-> TemplateString(e["BACKLOG_API_KEY"]),
          spaceUrl |-> TemplateString(e["BACKLOG_SPACE_URL"])],
         [order |-> ResolveOrder(args), offset |-> Undefined,
          count |-> ResolveCount(args)])
  ELSE [issued |-> FALSE, res |-> Throw(Error("Error", MsgUnknownTool)),
        http |-> <<>>]

\* executeTools up to its first suspension: it has either thrown or issued
\* the HTTP request it now awaits
executeTools(toolName, args, e) ==
  IF toolName = "list_recent_projects"
  THEN LET count == ResolveCount(args)
           order == ResolveOrder(args)
           apiKey == e["BACKLOG_API_KEY"]
           spaceUrl == e["BACKLOG_SPACE_URL"]
       IN IF ~ToBoolean(apiKey) \/ ~ToBoolean(spaceUrl)
          THEN [issued |-> FALSE, res |-> Throw(Error("Error", MsgCredentials)),
                http |-> <<>>]
          ELSE getRecentlyViewedProjects(
                 [apiKey |-> apiKey.s, spaceUrl |-> spaceUrl.s],
                 [order |-> order, offset |-> Undefined, count |-> count])
  ELSE [issued |-> FALSE, res |-> Throw(Error("Error", MsgUnknownTool)),
        http |-> <<>>]

\* executeTools after the awaited request has settled
executeToolsResume(settled) ==
  IF settled.ok
  THEN Return(formatToolResponse("Recently Viewed Projects", settled.value))
  ELSE settled

\* ------------------------------------------------------------------------
\* Inputs
\* ------------------------------------------------------------------------
EnvNames == {"BACKLOG_API_KEY", "BACKLOG_SPACE_URL", "SAMPLE_ENV"}

EnvValues(k) ==
  CASE k = "BACKLOG_API_KEY" -> {Undefined, Str("key")}
    [] k = "BACKLOG_SPACE_URL" ->
         {Undefined, Str(""), Str("not-a-url"), Str("https://example.backlog.com")}
    [] k = "SAMPLE_ENV" -> {Undefined, Str(""), Str("hello")}

Environments == {e \in [EnvNames -> UNION {EnvValues(k) : k \in EnvNames}] :
                   \A k \in EnvNames : e[k] \in EnvValues(k)}

CountArgs ==
  {Undefined, Null, Bool(TRUE), NaN, Str(""), Str("abc"), Str("50"),
   Str(NatToString(OverCount))}
    \cup {Num(x2) : x2 \in {-2, 0, 1, 2, 3, 2 * MaxCount - 1, 2 * MaxCount,
                            2 * MaxCount + 1, 2 * MaxCount + 2, 2 * OverCount}}

OrderArgs == {Undefined, Null, Str("asc"), Str("desc"), Str("ASC"), Bool(TRUE)}

ToolArgs ==
  {Undefined} \cup {Obj(<<"count", "order">>, <<c, o>>) :
                      c \in CountArgs, o \in OrderArgs}

ToolNames == {"list_recent_projects", "get_project"}
Uris == {GreetingUri, "simple://nope"}

Project(id, name) == Obj(<<"id", "name">>, <<Num(2 * id), Str(name)>>)
RecentlyViewedProject(id) ==
  Obj(<<"project", "updated">>,
      <<Project(id, IF id % 2 = 1 THEN "Alpha" ELSE "Beta"), Str("2024-01-01")>>)

RECURSIVE ProjectLists(_)
ProjectLists(n) ==
  IF n = 0 THEN {<<>>}
  ELSE ProjectLists(n - 1)
         \cup {Append(l, RecentlyViewedProject(id)) :
                 l \in {x \in ProjectLists(n - 1) : Len(x) = n - 1}, id \in 1 .. MaxId}

BacklogError(message, code) ==
  Obj(<<"errors">>,
      <<Arr(<<Obj(<<"message", "code", "moreInfo">>,
                  <<Str(message), Num(2 * code), Str("")>>)>>)>>)

\* the upstream's compact serialisation of a value
RECURSIVE Wire(_)
RECURSIVE WireItems(_, _)
RECURSIVE WireMembers(_, _, _)
WireItems(items, i) ==
  Wire(items[i]) \o (IF i = Len(items) THEN <<>> ELSE <<",">> \o WireItems(items, i + 1))
WireMembers(keys, vals, i) ==
  <<Quote(keys[i]), ":">> \o Wire(vals[i])
    \o (IF i = Len(keys) THEN <<>> ELSE <<",">> \o WireMembers(keys, vals, i + 1))
Wire(v) ==
  CASE v.t = "null" -> <<"null">>
    [] v.t = "number" -> <<NumberToString(v)>>
    [] v.t = "string" -> <<Quote(v.s)>>
    [] v.t = "array" ->
         <<"[">> \o (IF v.items = <<>> THEN <<>> ELSE WireItems(v.items, 1)) \o <<"]">>
    [] v.t = "object" ->
         <<"{">> \o (IF v.keys = <<>> THEN <<>> ELSE WireMembers(v.keys, v.vals, 1))
           \o <<"}">>

ArrayBodies == {Wire(Arr(l)) : l \in ProjectLists(MaxProjects)}

ErrorBodies ==
  {Wire(BacklogError("Authentication failure", 11)),
   Wire(BacklogError("", 5)),
   Wire(Obj(<<"errors">>, <<Arr(<<>>)>>)),
   Wire(Obj(<<>>, <<>>)),
   Wire(Null)}

InvalidBodies == {<<"<html>">>, <<"[", "{">>}

Statuses == {200, 403}

Outcomes ==
  {[kind |-> "network", status |-> 0, body |-> <<>>]}
    \cup {[kind |-> "response", status |-> st, body |-> b] :
            st \in Statuses, b \in ArrayBodies \cup ErrorBodies \cup InvalidBodies}

NoRequest == [kind |-> "none", name |-> "", uri |-> "", args |-> Undefined]
NoOutcome == [kind |-> "none", status |-> 0, body |-> <<>>]
NoResult == [ok |-> FALSE, value |-> Undefined, error |-> NoError]

\* ------------------------------------------------------------------------
\* State
\* ------------------------------------------------------------------------
VARIABLES
  proc,       \* "starting", "running" (transport connected) or "exited"
  exitCode,   \* the status the process exited with, -1 while it runs
  env,        \* process.env
  req,        \* the request being handled, or the last one handled
  phase,      \* "idle", "fetching" (awaiting the upstream) or "done"
              \* (the handler has settled, its response is not yet sent)
  httpSent,   \* the HTTP requests issued for req
  httpResp,   \* how the awaited HTTP request settled
  logged,     \* what console.error printed since req (or start-up) began
  result      \* what the handler returned or threw to the protocol layer

vars == <<proc, exitCode, env, req, phase, httpSent, httpResp, logged, result>>

Init ==
  /\ proc = "starting"
  /\ exitCode = -1
  /\ env \in Environments
  /\ req = NoRequest
  /\ phase = "idle"
  /\ httpSent = <<>>
  /\ httpResp = NoOutcome
  /\ logged = <<>>
  /\ result = NoResult

\* main() that logs the missing credential and connects all the same
main_ConnectAnyway ==
  /\ proc = "starting"
  /\ IF ~ToBoolean(env["BACKLOG_API_KEY"]) \/ ~ToBoolean(env["BACKLOG_SPACE_URL"])
     THEN logged' = <<[prefix |-> "server initialization error:",
                       error |-> Error("Error", MsgStartup)]>>
     ELSE UNCHANGED logged
  /\ proc' = "running"
  /\ UNCHANGED <<exitCode, env, req, phase, httpSent, httpResp, result>>

\* main(): exit 1 when a credential is missing, else connect the transport.
\* Connecting a fresh stdio transport is taken to succeed, so that the catch
\* block is entered by the missing credential alone.
main ==
  /\ proc = "starting"
  /\ IF ~ToBoolean(env["BACKLOG_API_KEY"]) \/ ~ToBoolean(env["BACKLOG_SPACE_URL"])
     THEN /\ logged' = <<[prefix |-> "server initialization error:",
                          error |-> Error("Error", MsgStartup)]>>
          /\ proc' = "exited"
          /\ exitCode' = 1
     ELSE /\ proc' = "running"
          /\ UNCHANGED <<logged, exitCode>>
  /\ UNCHANGED <<env, req, phase, httpSent, httpResp, result>>

\* process.env is re-read by every call; it may have changed since start-up
\* (no code of the server writes it: the change comes from the host process)
SetEnv ==
  /\ proc = "running"
  /\ \E k \in EnvNames : \E v \in EnvValues(k) :
       /\ env[k] # v
       /\ env' = [env EXCEPT ![k] = v]
  /\ UNCHANGED <<proc, exitCode, req, phase, httpSent, httpResp, logged, result>>

\* a request reaches its handler only over the connected transport
Accepting == proc = "running" /\ phase = "idle"

Answer(r, res) ==
  /\ req' = r
  /\ phase' = "done"
  /\ httpSent' = <<>>
  /\ httpResp' = NoOutcome
  /\ logged' = <<>>
  /\ result' = res
  /\ UNCHANGED <<proc, exitCode, env>>

ListResources ==
  /\ Accepting
  /\ Answer([NoRequest EXCEPT !.kind = "resources/list"], Return(listResources))

ReadResource ==
  /\ Accepting
  /\ \E uri \in Uris :
       Answer([NoRequest EXCEPT !.kind = "resources/read", !.uri = uri],
              readResource(uri, env))

ListTools ==
  /\ Accepting
  /\ Answer([NoRequest EXCEPT !.kind = "tools/list"], Return(listTools))

CallTool ==
  /\ Accepting
  /\ \E name \in ToolNames : \E args \in ToolArgs :
       LET r == [NoRequest EXCEPT !.kind = "tools/call", !.name = name,
                                  !.args = args]
           x == executeTools(name, args, env)
       IN IF x.issued
          THEN /\ req' = r
               /\ phase' = "fetching"
               /\ httpSent' = x.http
               /\ httpResp' = NoOutcome
               /\ logged' = <<>>
               /\ result' = NoResult
               /\ UNCHANGED <<proc, exitCode, env>>
          ELSE Answer(r, x.res)

\* a failed request ends the process
FetchSettle_ExitOnError ==
  /\ proc = "running"
  /\ phase = "fetching"
  /\ \E outcome \in Outcomes :
       LET s == requestSettle(RecentPath, outcome) IN
       /\ httpResp' = outcome
       /\ logged' = logged \o s.logs
       /\ result' = executeToolsResume(s.res)
       /\ IF s.res.ok THEN UNCHANGED <<proc, exitCode>>
          ELSE proc' = "exited" /\ exitCode' = 1
  /\ phase' = "done"
  /\ UNCHANGED <<env, req, httpSent>>

\* a failed request is issued once more
FetchSettle_Retry ==
  /\ proc = "running"
  /\ phase = "fetching"
  /\ \E outcome \in Outcomes :
       LET s == requestSettle(RecentPath, outcome) IN
       IF ~s.res.ok /\ Len(httpSent) < 2
       THEN /\ httpSent' = httpSent \o httpSent
            /\ logged' = <<>>
            /\ UNCHANGED <<phase, httpResp, result>>
       ELSE /\ httpResp' = outcome
            /\ logged' = s.logs
            /\ result' = executeToolsResume(s.res)
            /\ phase' = "done"
            /\ UNCHANGED httpSent
  /\ UNCHANGED <<proc, exitCode, env, req>>

\* the awaited fetch settles; request() and then executeTools run to their end
FetchSettle ==
  /\ proc = "running"
  /\ phase = "fetching"
  /\ \E outcome \in Outcomes :
       LET s == requestSettle(RecentPath, outcome) IN
       /\ httpResp' = outcome
       /\ logged' = logged \o s.logs
       /\ result' = executeToolsResume(s.res)
  /\ phase' = "done"
  /\ UNCHANGED <<proc, exitCode, env, req, httpSent>>

\* the protocol layer sends the handler's result, or its error, as the
\* response; the request is over
Respond ==
  /\ proc = "running"
  /\ phase = "done"
  /\ phase' = "idle"
  /\ req' = NoRequest
  /\ httpSent' = <<>>
  /\ httpResp' = NoOutcome
  /\ logged' = <<>>
  /\ result' = NoResult
  /\ UNCHANGED <<proc, exitCode, env>>

Next ==
  \/ main
  \/ SetEnv
  \/ ListResources
  \/ ReadResource
  \/ ListTools
  \/ CallTool
  \/ FetchSettle
  \/ Respond

Spec == Init /\ [][Next]_vars

\* ------------------------------------------------------------------------
\* Vocabulary of the properties
\* ------------------------------------------------------------------------
IsRecentCall(r) == r.kind = "tools/call" /\ r.name = "list_recent_projects"
Issued == IsRecentCall(req) /\ httpSent # <<>>
QueryValues(k) == SelectSeq(httpSent[1].url.query, LAMBDA kv : kv[1] = k)
CredentialUnset(e) ==
  e["BACKLOG_API_KEY"] = Undefined \/ e["BACKLOG_SPACE_URL"] = Undefined
CredentialAbsent(e) ==
  e["BACKLOG_API_KEY"] \in {Undefined, Str("")}
    \/ e["BACKLOG_SPACE_URL"] \in {Undefined, Str("")}
Contains(text, fragment) == \E i \in 1 .. Len(text) : text[i] = fragment
\* a step in which a request is taken up by its handler
Begins(kind) == phase = "idle" /\ phase' # "idle" /\ req'.kind = kind
\* the awaited upstream request has failed
UpstreamFailed ==
  /\ phase = "done"
  /\ IsRecentCall(req)
  /\ \/ httpResp.kind = "network"
     \/ httpResp.kind = "response" /\ ~JSONParse(httpResp.body).ok
     \/ httpResp.kind = "response" /\ ~ResponseOk(httpResp.status)

\* ------------------------------------------------------------------------
\* C1: for every count argument, a value in [1,100] is sent upstream
\* unchanged and every other value (out of range, not a number, absent)
\* is replaced by 20.  Stated on the inputs whose reading is not in doubt:
\* numbers, an absent count, and a string that is no number.
\* ------------------------------------------------------------------------
C1_CountClamped ==
  Issued =>
    LET c == OptGet(req.args, "count")
        inRange == c.t = "number" /\ ~c.nan /\ c.x2 >= 2 /\ c.x2 <= 2 * MaxCount
        judged == c.t \in {"number", "undefined"} \/ c = Str("abc")
    IN judged =>
         QueryValues("count") =
           <<<<"count", IF inRange THEN NumberToString(c) ELSE "20">>>>

\* ------------------------------------------------------------------------
\* C2: a list_recent_projects call made while BACKLOG_API_KEY or
\* BACKLOG_SPACE_URL is unset fails with the configuration error and
\* issues no HTTP request, whatever its arguments.
\* ------------------------------------------------------------------------
C2_NoCredentialsNoRequest ==
  [][(Begins("tools/call") /\ IsRecentCall(req') /\ CredentialUnset(env))
       => /\ phase' = "done"
          /\ httpSent' = <<>>
          /\ ~result'.ok
          /\ result'.error = Error("Error", MsgCredentials)]_vars

C2_Witness ==
  /\ proc = "running"
  /\ phase = "done"
  /\ IsRecentCall(req)
  /\ Get(req.args, "count") = Num(2 * OverCount)
  /\ env["BACKLOG_API_KEY"] = Undefined
  /\ result.error = Error("Error", MsgCredentials)
  /\ httpSent = <<>>

\* ------------------------------------------------------------------------
\* C3: every upstream response whose status is not successful makes the
\* call fail with the API error, which carries the message and code of the
\* first element of the body's errors array when there is one and the
\* generic message otherwise.  Stated for the bodies that are valid JSON
\* (a body that is not is C4's case).
\* ------------------------------------------------------------------------
C3_FirstError(v) ==
  IF v.t = "object" /\ Get(v, "errors").t = "array" /\ Get(v, "errors").items # <<>>
  THEN Get(v, "errors").items[1] ELSE Undefined

C3_ApiError ==
  (phase = "done" /\ IsRecentCall(req) /\ httpResp.kind = "response"
     /\ ~ResponseOk(httpResp.status) /\ JSONParse(httpResp.body).ok)
  => LET first == C3_FirstError(JSONParse(httpResp.body).v) IN
     /\ ~result.ok
     /\ result.error.name = "Error"
     /\ Len(result.error.message) = 5
     /\ result.error.message[1] = "Backlog API Error: "
     /\ IF first = Undefined
        THEN result.error.message[2] = "Unknown error"
        ELSE /\ result.error.message[2] \in {Get(first, "message").s, "Unknown error"}
             /\ result.error.message[4] = NumberToString(Get(first, "code"))

\* ------------------------------------------------------------------------
\* C4: when the transport fails or the body is not valid JSON, the call
\* fails with that very error: it is logged once and re-raised unchanged,
\* and no value is returned.
\* ------------------------------------------------------------------------
C4_TransportErrorRethrown ==
  (phase = "done" /\ IsRecentCall(req) /\ httpResp.kind # "none")
  => /\ httpResp.kind = "network"
          => /\ result = Throw(Error("TypeError", <<"fetch failed">>))
             /\ Len(logged) = 1
             /\ logged[1].error = result.error
     /\ (httpResp.kind = "response" /\ ~JSONParse(httpResp.body).ok)
          => /\ result = Throw(Error("SyntaxError", <<"Unexpected token in JSON">>))
             /\ Len(logged) = 1
             /\ logged[1].error = result.error

C4_Witness ==
  /\ phase = "done"
  /\ httpResp.kind = "response"
  /\ httpResp.body = <<"<html>">>
  /\ result.error.name = "SyntaxError"
  /\ Len(logged) = 1

\* ------------------------------------------------------------------------
\* C5: a 200 response whose body is an array of RecentlyViewedProject gives
\* an envelope of exactly one text item, titled "Recently Viewed Projects",
\* whose JSON body parses back to that array: same elements, same order.
\* ------------------------------------------------------------------------
C5_EnvelopeRoundTrip ==
  (phase = "done" /\ IsRecentCall(req) /\ httpResp.kind = "response"
     /\ httpResp.status = 200 /\ httpResp.body \in ArrayBodies)
  => /\ result.ok
     /\ Len(result.value.content) = 1
     /\ result.value.content[1].type = "text"
     /\ LET text == result.value.content[1].text
            back == JSONParse(SubSeq(text, 4, Len(text)))
        IN /\ SubSeq(text, 1, 3) = <<"# ", "Recently Viewed Projects", "\n\n">>
           /\ back.ok
           /\ back.v.t = "array"
           /\ back.v = JSONParse(httpResp.body).v
           /\ Wire(back.v) = httpResp.body

C5_Witness ==
  /\ phase = "done"
  /\ result.ok
  /\ httpResp.body =
       Wire(Arr(<<RecentlyViewedProject(2), RecentlyViewedProject(1)>>))
  /\ Len(result.value.content[1].text) > 20

\* ------------------------------------------------------------------------
\* C6: when a credential is absent at start-up the process prints to the
\* error stream and exits with status 1 without connecting the transport,
\* so that no request is ever handled in that run.
\* ------------------------------------------------------------------------
C6_StartupFailure ==
  /\ [](proc = "exited"
          => /\ exitCode = 1
             /\ Len(logged) = 1
             /\ req = NoRequest /\ phase = "idle" /\ httpSent = <<>>
             /\ result = NoResult)
  /\ [][(proc = "starting" /\ CredentialAbsent(env))
          => (proc' = "exited" /\ exitCode' = 1 /\ Len(logged') = 1)]_vars
  /\ [][proc = "exited" => UNCHANGED vars]_vars

C6_Witness ==
  /\ proc = "exited"
  /\ exitCode = 1
  /\ env["BACKLOG_API_KEY"] = Str("key")
  /\ env["BACKLOG_SPACE_URL"] = Undefined
  /\ logged[1].error.message = MsgStartup

C8_Outcomes(isSet) ==
  Begins("resources/read") =>
    LET uri == req'.uri
        sample == env["SAMPLE_ENV"]
    IN /\ phase' = "done"
       /\ (uri = GreetingUri /\ isSet)
            => /\ result'.ok
               /\ Len(result'.value.contents) = 1
               /\ result'.value.contents[1].mimeType = "text/plain"
               /\ result'.value.contents[1].uri = uri
               /\ Contains(result'.value.contents[1].text, sample.s)
       /\ (uri = GreetingUri /\ ~isSet)
            => result' = Throw(Error("Error", MsgSampleEnv))
       /\ uri # GreetingUri
            => /\ ~result'.ok
               /\ result'.value = Undefined
               /\ result'.error.message[1] = "unknown resource: "
               /\ Contains(result'.error.message, uri)

\* C8 as stated: "set" is "present in the environment"
C8_Original == [][C8_Outcomes(env["SAMPLE_ENV"] # Undefined)]_vars

\* C8 as amended: "set" is "present and not empty"
C8_ReadResource ==
  [][C8_Outcomes(env["SAMPLE_ENV"] \notin {Undefined, Str("")})]_vars

C8_Witness ==
  /\ phase = "done"
  /\ req.kind = "resources/read"
  /\ req.uri = GreetingUri
  /\ result.ok
  /\ Contains(result.value.contents[1].text, "hello")

\* ------------------------------------------------------------------------
\* C9: for every order argument, exactly the string "asc" is sent upstream
\* as "asc"; every other value, an absent one included, is sent as "desc".
\* ------------------------------------------------------------------------
C9_OrderResolved ==
  Issued =>
    LET o == OptGet(req.args, "order")
        isAsc == o.t = "string" /\ o.s = "asc"
    IN QueryValues("order") = <<<<"order", IF isAsc THEN "asc" ELSE "desc">>>>

C9_Witness ==
  /\ Issued
  /\ Get(req.args, "order") = Str("ASC")
  /\ QueryValues("order") = <<<<"order", "desc">>>>

\* ------------------------------------------------------------------------
\* C10: an invocation of list_recent_projects issues at most one upstream
\* HTTP request; when that request fails no further request is issued and
\* the failure is what the caller receives.
\* ------------------------------------------------------------------------
C10_NoRetry ==
  /\ [](Len(httpSent) <= 1)
  /\ [](UpstreamFailed => (Len(httpSent) = 1 /\ ~result.ok
                             /\ result.error # NoError
                             /\ logged = <<[prefix |-> logged[1].prefix,
                                            error |-> result.error]>>))
  /\ [][phase # "idle" => httpSent' \in {httpSent, <<>>}]_vars

C10_Witness ==
  /\ UpstreamFailed
  /\ httpResp.kind = "network"
  /\ Len(httpSent) = 1
  /\ ~result.ok

====
